---- MODULE Spec2Model ----
(***************************************************************************)
(* State-machine model of the plmem platform driver (src/plmem.c).         *)
(*                                                                         *)
(* The driver's own functions are translated statement by statement.  The  *)
(* kernel services it calls (char-device number allocator, cdev map,       *)
(* device class, driver core, vm_iomap_memory) are modelled by what the    *)
(* call does with the arguments the driver passes at the call site.        *)
(***************************************************************************)
EXTENDS Integers, Sequences, FiniteSets, TLC

(* ---------------------------- bounds ----------------------------------- *)
MaxNodes == 2
MaxProbes == 3
MaxSessions == 2

(* ----------------------- program constants ----------------------------- *)
NUMBER_OF_CDEV == 1
DRIVER_CLASS_NAME == "plmem"
DefaultLabel == "plmem"
TesterTag == "topic,iotester"

ENXIO == 6
ENOMEM == 12
EBUSY == 16
EEXIST == 17
EINVAL == 22
ENOTTY == 25

MINORBITS == 20
CHRDEV_MAJOR_HASH_SIZE == 255
CHRDEV_MAJOR_DYN_END == 234
CHRDEV_MAJOR_DYN_EXT_START == 511
CHRDEV_MAJOR_DYN_EXT_END == 384
PAGE_SIZE == 4096

Nodes == 1..MaxNodes
Sessions == 1..MaxSessions

(* ----------------------- dev_t arithmetic ------------------------------ *)
MinorCount == 2^MINORBITS
MKDEV(ma, mi) == ma * MinorCount + mi
MAJOR(dev) == dev \div MinorCount
MINOR(dev) == dev % MinorCount

(* The region record the allocator keeps for `count` numbers from dev.     *)
Region(dev, count, name) ==
  [major |-> MAJOR(dev), baseminor |-> MINOR(dev), minorct |-> count, name |-> name]

(* A region some other driver obtained for a whole major before plmem was  *)
(* loaded: alloc_chrdev_region(&d, 0, 1 << MINORBITS, "uio").              *)
ForeignRegion ==
  [major |-> CHRDEV_MAJOR_HASH_SIZE - 1, baseminor |-> 0,
   minorct |-> MinorCount, name |-> "uio"]

(* ------------------ char-device number allocator ----------------------- *)
RECURSIVE dyn_scan_hash(_, _)
(* First loop of find_dynamic_major: from bucket i down to                 *)
(* CHRDEV_MAJOR_DYN_END, the first hash bucket with no region in it.       *)
dyn_scan_hash(chr, i) ==
  IF i < CHRDEV_MAJOR_DYN_END THEN -1
  ELSE IF \A cd \in chr : cd.major % CHRDEV_MAJOR_HASH_SIZE # i THEN i
  ELSE dyn_scan_hash(chr, i - 1)

RECURSIVE dyn_scan_ext(_, _)
(* Second loop: from major i down to CHRDEV_MAJOR_DYN_EXT_END, the first   *)
(* major no region uses.                                                   *)
dyn_scan_ext(chr, i) ==
  IF i < CHRDEV_MAJOR_DYN_EXT_END THEN -1
  ELSE IF \A cd \in chr : cd.major # i THEN i
  ELSE dyn_scan_ext(chr, i - 1)

find_dynamic_major(chr) ==
  LET low == dyn_scan_hash(chr, CHRDEV_MAJOR_HASH_SIZE - 1)
      ext == dyn_scan_ext(chr, CHRDEV_MAJOR_DYN_EXT_START)
  IN IF low >= 0 THEN low
     ELSE IF ext >= 0 THEN ext
     ELSE -EBUSY

(* alloc_chrdev_region(&dev, baseminor, count, name); nomem is the         *)
(* allocator's own kzalloc failing.                                        *)
alloc_chrdev_region(chr, baseminor, count, name, nomem) ==
  LET major == find_dynamic_major(chr)
  IN IF nomem THEN [ret |-> -ENOMEM, dev |-> 0, chrdevs |-> chr]
     ELSE IF major < 0 THEN [ret |-> major, dev |-> 0, chrdevs |-> chr]
     ELSE [ret |-> 0, dev |-> MKDEV(major, baseminor),
           chrdevs |-> chr \cup {Region(MKDEV(major, baseminor), count, name)}]

(* unregister_chrdev_region(from, count): the range [from, from+count) is  *)
(* cut at major boundaries and each piece removes the region whose major,  *)
(* baseminor and minorct all equal the piece's.  Every dev_t the model     *)
(* reaches is below 2^29, so from + count does not wrap in 32 bits.        *)
unregister_chrdev_region(chr, from, count) ==
  LET to == from + count
      lo(m) == IF MKDEV(m, 0) > from THEN MKDEV(m, 0) ELSE from
      hi(m) == IF MKDEV(m + 1, 0) < to THEN MKDEV(m + 1, 0) ELSE to
  IN {cd \in chr :
        ~ /\ MAJOR(from) <= cd.major
          /\ cd.major <= MAJOR(to)
          /\ hi(cd.major) > lo(cd.major)
          /\ cd.baseminor = MINOR(lo(cd.major))
          /\ cd.minorct = hi(cd.major) - lo(cd.major)}

(* ----------------------------- cdev map -------------------------------- *)
(* cdev_add: kobj_map inserts the new probe before older ones of the same  *)
(* range, so a lookup of dev finds the newest cdev added for it.           *)
cdev_add(cmap, dev, count, owner, nomem) ==
  IF nomem THEN [ret |-> -ENOMEM, cdev_map |-> cmap]
  ELSE [ret |-> 0,
        cdev_map |-> <<[dev |-> dev, range |-> count, cdev |-> owner]>> \o cmap]

(* kobj_lookup: the first entry covering dev, or <<>>.                     *)
cdev_lookup(cmap, dev) ==
  LET hits == {i \in 1..Len(cmap) :
                 cmap[i].dev <= dev /\ dev < cmap[i].dev + cmap[i].range}
  IN IF hits = {} THEN <<>>
     ELSE <<cmap[CHOOSE i \in hits : \A j \in hits : i <= j].cdev>>

(* --------------------------- device class ------------------------------ *)
(* device_create(class, parent, devt, drvdata, fmt): fails with -EEXIST on *)
(* a name already present in the class, or with -ENOMEM.                   *)
device_create(devs, parent, devt, drvdata, name, nomem) ==
  IF nomem THEN [ret |-> -ENOMEM, class_devs |-> devs]
  ELSE IF \E d \in devs : d.name = name THEN [ret |-> -EEXIST, class_devs |-> devs]
  ELSE [ret |-> 0,
        class_devs |-> devs \cup {[devt |-> devt, name |-> name,
                                   parent |-> parent, drvdata |-> drvdata]}]

(* device_destroy(class, devt): unregisters the class device with devt.    *)
device_destroy(devs, devt) ==
  LET found == {d \in devs : d.devt = devt}
  IN IF found = {} THEN devs
     ELSE devs \ {CHOOSE d \in found : TRUE}

(* ------------------------- struct plmem_data --------------------------- *)
Modes == {"noncached", "writecombine", "cached"}

(* devm_kzalloc: a zeroed struct; enum value 0 is noncached.  gen numbers  *)
(* the allocations made for one platform device, node_state is the         *)
(* instance's lifecycle state and mem tells whether the allocation is      *)
(* still live.                                                             *)
devm_kzalloc(n, g) ==
  [gen |-> g, mem |-> "live", dev |-> n, mem_start |-> 0, mem_size |-> 0,
   devt |-> 0, cdev_command |-> "zero", mmap_mode |-> "noncached",
   node_state |-> "Unpublished"]

(* devres release: the allocation is freed and its contents are no longer  *)
(* defined; gen, devt and node_state stay as the record of which instance  *)
(* it was.                                                                 *)
Freed(d) ==
  [devm_kzalloc(d.dev, d.gen) EXCEPT !.mem = "freed", !.devt = d.devt,
                                     !.node_state = d.node_state]

NoData(n) == [devm_kzalloc(n, 0) EXCEPT !.mem = "none"]

(* ----------------------- firmware description -------------------------- *)
(* An optional property is <<>> when absent and <<value>> when present.    *)
Resources ==
  {[start |-> 65536, end |-> 65536 + PAGE_SIZE - 1],
   [start |-> 131072, end |-> 131072 + 2 * PAGE_SIZE - 1]}
ResourceInputs == {<<>>} \cup {<<r>> : r \in Resources}
MemTypeInputs ==
  {<<>>, <<"writecombine">>, <<"cached">>, <<"noncached">>,
   <<"bogus">>, <<"Cached">>}
LabelInputs == {<<>>, <<"fpga0">>}
Descriptions ==
  [res : ResourceInputs, tester : BOOLEAN, mem_type : MemTypeInputs,
   label : LabelInputs]

(* device_is_compatible(&pdev->dev, "topic,iotester")                      *)
device_is_compatible(desc, tag) == tag = TesterTag /\ desc.tester

(* device_property_read_string: 0 and the value, or -EINVAL when absent.   *)
device_property_read_string(prop, old) ==
  IF prop = <<>> THEN [ret |-> -EINVAL, val |-> old]
  ELSE [ret |-> 0, val |-> prop[1]]

(* What the dereference of the NULL resource at res->start can turn into:  *)
(* the kernel oopses in the probing thread, or the reads return whatever   *)
(* is at address 0 and the probe goes on.                                  *)
NullDerefOutcomes ==
  {[oops |-> TRUE, start |-> 0, end |-> 0],
   [oops |-> FALSE, start |-> 0, end |-> PAGE_SIZE - 1]}

Faults == {"none", "kzalloc", "alloc_chrdev", "cdev_add", "device_create"}

(* ------------------------ plmem_create_cdev ---------------------------- *)
(* The labels failed_device_create / failed_cdev: one release of the       *)
(* region, nothing else.                                                   *)
(* Variant: the error exit with the count expression of line 167.          *)
failed_cdev_count_is_devt(chr, devt) ==
  unregister_chrdev_region(chr, devt, devt + NUMBER_OF_CDEV - 1)

failed_cdev(chr, devt) == unregister_chrdev_region(chr, devt, NUMBER_OF_CDEV)

(* Variant: ret is not set from PTR_ERR when device_create fails, so the   *)
(* 0 of cdev_add is returned.                                              *)
plmem_create_cdev_ret_not_set(self, data, label, fault, chr, cmap, devs) ==
  LET a == alloc_chrdev_region(chr, 0, NUMBER_OF_CDEV, DRIVER_CLASS_NAME,
                               fault = "alloc_chrdev")
      d1 == [data EXCEPT !.devt = a.dev, !.cdev_command = "init"]
      c == cdev_add(cmap, a.dev, 1, self, fault = "cdev_add")
      d2 == [d1 EXCEPT !.cdev_command = "added"]
      dc == device_create(devs, data.dev, a.dev, self, label,
                          fault = "device_create")
  IN IF a.ret < 0
       THEN [ret |-> a.ret, step |-> "alloc_chrdev", data |-> data,
             chrdevs |-> chr, cdev_map |-> cmap, class_devs |-> devs]
     ELSE IF c.ret # 0
       THEN [ret |-> c.ret, step |-> "cdev_add", data |-> d1,
             chrdevs |-> failed_cdev(a.chrdevs, a.dev),
             cdev_map |-> cmap, class_devs |-> devs]
     ELSE IF dc.ret # 0
       THEN [ret |-> c.ret, step |-> "device_create", data |-> d2,
             chrdevs |-> failed_cdev(a.chrdevs, a.dev),
             cdev_map |-> c.cdev_map, class_devs |-> devs]
     ELSE [ret |-> 0, step |-> "done", data |-> d2, chrdevs |-> a.chrdevs,
           cdev_map |-> c.cdev_map, class_devs |-> dc.class_devs]

plmem_create_cdev(self, data, label, fault, chr, cmap, devs) ==
  LET a == alloc_chrdev_region(chr, 0, NUMBER_OF_CDEV, DRIVER_CLASS_NAME,
                               fault = "alloc_chrdev")
      d1 == [data EXCEPT !.devt = a.dev, !.cdev_command = "init"]
      c == cdev_add(cmap, a.dev, 1, self, fault = "cdev_add")
      d2 == [d1 EXCEPT !.cdev_command = "added"]
      dc == device_create(devs, data.dev, a.dev, self, label,
                          fault = "device_create")
  IN IF a.ret < 0
       THEN [ret |-> a.ret, step |-> "alloc_chrdev", data |-> data,
             chrdevs |-> chr, cdev_map |-> cmap, class_devs |-> devs]
     ELSE IF c.ret # 0
       THEN [ret |-> c.ret, step |-> "cdev_add", data |-> d1,
             chrdevs |-> failed_cdev(a.chrdevs, a.dev),
             cdev_map |-> cmap, class_devs |-> devs]
     ELSE IF dc.ret # 0
       THEN [ret |-> dc.ret, step |-> "device_create", data |-> d2,
             chrdevs |-> failed_cdev(a.chrdevs, a.dev),
             cdev_map |-> c.cdev_map, class_devs |-> devs]
     ELSE [ret |-> 0, step |-> "done", data |-> d2, chrdevs |-> a.chrdevs,
           cdev_map |-> c.cdev_map, class_devs |-> dc.class_devs]

(* --------------------------- plmem_probe ------------------------------- *)
(* Variant: the compatibility tag is not looked at.                        *)
DefaultMode_ignores_tag(desc) == "writecombine"

(* Lines 133-136: the mode chosen before mem-type is looked at.            *)
DefaultMode(desc) ==
  IF device_is_compatible(desc, TesterTag) THEN "noncached" ELSE "writecombine"

(* Variant: the cached and noncached branches exchanged.                   *)
MemTypeMode_swapped(mem_type, current) ==
  LET p == device_property_read_string(mem_type, "")
  IN IF p.ret # 0 THEN [ret |-> 0, mode |-> current]
     ELSE IF p.val = "writecombine" THEN [ret |-> 0, mode |-> "writecombine"]
     ELSE IF p.val = "cached" THEN [ret |-> 0, mode |-> "noncached"]
     ELSE IF p.val = "noncached" THEN [ret |-> 0, mode |-> "cached"]
     ELSE [ret |-> -EINVAL, mode |-> current]

(* Variant: an unknown string keeps the default instead of failing.        *)
MemTypeMode_unknown_keeps_default(mem_type, current) ==
  LET p == device_property_read_string(mem_type, "")
  IN IF p.ret # 0 THEN [ret |-> 0, mode |-> current]
     ELSE IF p.val = "writecombine" THEN [ret |-> 0, mode |-> "writecombine"]
     ELSE IF p.val = "cached" THEN [ret |-> 0, mode |-> "cached"]
     ELSE IF p.val = "noncached" THEN [ret |-> 0, mode |-> "noncached"]
     ELSE [ret |-> 0, mode |-> current]

(* Lines 138-149: the strcmp chain over the mem-type string.               *)
MemTypeMode(mem_type, current) ==
  LET p == device_property_read_string(mem_type, "")
  IN IF p.ret # 0 THEN [ret |-> 0, mode |-> current]
     ELSE IF p.val = "writecombine" THEN [ret |-> 0, mode |-> "writecombine"]
     ELSE IF p.val = "cached" THEN [ret |-> 0, mode |-> "cached"]
     ELSE IF p.val = "noncached" THEN [ret |-> 0, mode |-> "noncached"]
     ELSE [ret |-> -EINVAL, mode |-> current]

(* Lines 118, 151-153: the label passed to plmem_create_cdev.              *)
(* Variant: the label property is not read.                                *)
ResolveLabel_ignores_property(desc) == DefaultLabel

ResolveLabel(desc) == device_property_read_string(desc.label, DefaultLabel).val

(* The whole of plmem_probe.  Result: returned (FALSE when the thread      *)
(* died in the probe), ret, step (where it ended), alloc (whether          *)
(* devm_kzalloc gave memory), data and the kernel tables.                  *)
plmem_probe(self, desc, fault, ub, chr, cmap, devs) ==
  LET d0 == devm_kzalloc(self.node, self.gen)
      res == IF desc.res = <<>> THEN [start |-> ub.start, end |-> ub.end]
             ELSE desc.res[1]
      d1 == [d0 EXCEPT !.mem_start = res.start,
                       !.mem_size = res.end - res.start + 1,
                       !.mmap_mode = DefaultMode(desc)]
      mt == MemTypeMode(desc.mem_type, d1.mmap_mode)
      d2 == [d1 EXCEPT !.mmap_mode = mt.mode]
      label == ResolveLabel(desc)
      cc == plmem_create_cdev(self, d2, label, fault, chr, cmap, devs)
      same == [chrdevs |-> chr, cdev_map |-> cmap, class_devs |-> devs]
  IN IF fault = "kzalloc"
       THEN [returned |-> TRUE, ret |-> -ENOMEM, step |-> "kzalloc",
             alloc |-> FALSE, data |-> d0, label |-> DefaultLabel] @@ same
     ELSE IF desc.res = <<>> /\ ub.oops
       THEN [returned |-> FALSE, ret |-> 0, step |-> "resource",
             alloc |-> TRUE, data |-> d0, label |-> DefaultLabel] @@ same
     ELSE IF mt.ret # 0
       THEN [returned |-> TRUE, ret |-> mt.ret, step |-> "mem_type",
             alloc |-> TRUE, data |-> d1, label |-> DefaultLabel] @@ same
     ELSE [returned |-> TRUE, ret |-> cc.ret, step |-> cc.step,
           alloc |-> TRUE, data |-> cc.data, label |-> label,
           chrdevs |-> cc.chrdevs, cdev_map |-> cc.cdev_map,
           class_devs |-> cc.class_devs]

(* --------------------------- plmem_remove ------------------------------ *)
(* Line 167: the count handed to unregister_chrdev_region.                 *)
RemoveCount(devt) == devt + NUMBER_OF_CDEV - 1

(* Variant: the loop of plmem_remove destroys the device one past devt.    *)
plmem_remove_destroys_next(data, chr, devs) ==
  [class_devs |-> device_destroy(devs, data.devt + 1),
   chrdevs |-> unregister_chrdev_region(chr, data.devt, RemoveCount(data.devt))]

plmem_remove(data, chr, devs) ==
  [class_devs |-> device_destroy(devs, data.devt + 0),
   chrdevs |-> unregister_chrdev_region(chr, data.devt, RemoveCount(data.devt))]

(* ----------------------------- file ops -------------------------------- *)
(* pgprot_noncached / pgprot_writecombine replace the memory-type bits of  *)
(* a protection value and keep its access bits.                            *)
DefaultProts ==
  {[access |-> "PAGE_SHARED", memtype |-> "default"],
   [access |-> "PAGE_READONLY", memtype |-> "default"]}
pgprot_noncached(prot) == [prot EXCEPT !.memtype = "noncached"]
pgprot_writecombine(prot) == [prot EXCEPT !.memtype = "writecombine"]

(* Variant: the default case falls into the noncached one.                 *)
MmapPageProt_default_noncached(mode, prot) ==
  IF mode = "writecombine" THEN pgprot_writecombine(prot)
  ELSE pgprot_noncached(prot)

(* Variant: a read-only mapping keeps the caller's memory type.            *)
MmapPageProt_readonly_untouched(mode, prot) ==
  IF prot.access = "PAGE_READONLY" THEN prot
  ELSE IF mode = "noncached" THEN pgprot_noncached(prot)
  ELSE IF mode = "writecombine" THEN pgprot_writecombine(prot)
  ELSE prot

(* Lines 36-45 of plmem_mmap: the switch over data->mmap_mode.             *)
MmapPageProt(mode, prot) ==
  IF mode = "noncached" THEN pgprot_noncached(prot)
  ELSE IF mode = "writecombine" THEN pgprot_writecombine(prot)
  ELSE prot

(* vm_iomap_memory(vma, start, len): the range checks on the vma's page    *)
(* offset and size against the region, then io_remap_pfn_range (which can  *)
(* fail with -ENOMEM).                                                     *)
vm_iomap_memory(vma, start, len, nomem) ==
  LET len2 == len + (start % PAGE_SIZE)
      pages == (len2 + PAGE_SIZE - 1) \div PAGE_SIZE
  IN IF vma.vm_pgoff > pages THEN -EINVAL
     ELSE IF vma.vm_pages > pages - vma.vm_pgoff THEN -EINVAL
     ELSE IF nomem THEN -ENOMEM
     ELSE 0

(* Variant: request code 0 is accepted.                                    *)
plmem_ioctl_accepts_zero(cmd, arg) == IF cmd = 0 THEN 0 ELSE -ENOTTY

(* plmem_ioctl                                                             *)
plmem_ioctl(cmd, arg) == -ENOTTY

(* plmem_release                                                           *)
plmem_release == 0

VmaInputs ==
  {[vm_page_prot |-> [access |-> "PAGE_SHARED", memtype |-> "default"],
    vm_pgoff |-> 0, vm_pages |-> 1],
   [vm_page_prot |-> [access |-> "PAGE_READONLY", memtype |-> "default"],
    vm_pgoff |-> 1, vm_pages |-> 1]}
IoctlInputs == {[cmd |-> 0, arg |-> 0], [cmd |-> 21505, arg |-> 4096]}

NullPtr == [node |-> 0, gen |-> 0]
NoVma == [vm_page_prot |-> [access |-> "none", memtype |-> "default"],
          vm_pgoff |-> 0, vm_pages |-> 0]
ClosedFile == [open |-> FALSE, private_data |-> NullPtr, pc |-> "idle",
               vma |-> NoVma, prot0 |-> NoVma.vm_page_prot]

(* ------------------------------ state ---------------------------------- *)
VARIABLES
  module,            \* "unloaded" | "loaded"
  plmem_class,       \* "NULL" | "valid" | "ERR_PTR" | "destroyed"
  class_registered,  \* a class named plmem exists in the kernel
  driver_registered, \* plmem_driver is on the platform bus
  chrdevs,           \* the char-device regions registered system-wide
  cdev_map,          \* the cdevs added, newest first
  class_devs,        \* the devices published under plmem_class
  data,              \* per platform device: its latest struct plmem_data
  drvdata,           \* per platform device: gen of the drvdata pointer, 0 = NULL
  bound,             \* per platform device: "unbound" | "bound" | "oops"
  probes,            \* number of plmem_probe calls so far
  filp,              \* per session: the open file
  call               \* the last call made into the driver and what it returned

vars == <<module, plmem_class, class_registered, driver_registered,
          chrdevs, cdev_map, class_devs, data, drvdata, bound, probes, filp, call>>

kernel_vars == <<chrdevs, cdev_map, class_devs>>
module_vars == <<module, plmem_class, class_registered, driver_registered>>
device_vars == <<data, drvdata, bound, probes>>

Init ==
  /\ module = "unloaded"
  /\ plmem_class = "NULL"
  /\ class_registered = FALSE
  /\ driver_registered = FALSE
  /\ chrdevs \in {{}, {ForeignRegion}}
  /\ cdev_map = <<>>
  /\ class_devs = {}
  /\ data = [n \in Nodes |-> NoData(n)]
  /\ drvdata = [n \in Nodes |-> 0]
  /\ bound = [n \in Nodes |-> "unbound"]
  /\ probes = 0
  /\ filp = [s \in Sessions |-> ClosedFile]
  /\ call = [op |-> "boot"]

(* The kernel tables as a call finds them, kept in the call's record.      *)
Tables == [chrdevs |-> chrdevs, cdev_map |-> cdev_map, class_devs |-> class_devs]

(* The instance a pointer refers to is still allocated.                    *)
Live(ptr) ==
  /\ ptr.node \in Nodes
  /\ data[ptr.node].gen = ptr.gen
  /\ data[ptr.node].mem = "live"

(* --------------------------- module init/exit -------------------------- *)
InitFaults == {"none", "class_create", "driver_register"}

(* Variant: the result of class_create is not tested with IS_ERR.          *)
plmem_init_no_is_err(fault, registered) ==
  IF fault = "class_create" \/ registered
    THEN [ret |-> 0, plmem_class |-> "ERR_PTR", class_registered |-> registered,
          driver_registered |-> TRUE]
  ELSE IF fault = "driver_register"
    THEN [ret |-> -ENOMEM, plmem_class |-> "valid", class_registered |-> TRUE,
          driver_registered |-> FALSE]
  ELSE [ret |-> 0, plmem_class |-> "valid", class_registered |-> TRUE,
        driver_registered |-> TRUE]

(* plmem_init: class_create fails on a duplicate class name or on memory.  *)
plmem_init(fault, registered) ==
  IF fault = "class_create" \/ registered
    THEN [ret |-> IF registered THEN -EEXIST ELSE -ENOMEM,
          plmem_class |-> "ERR_PTR", class_registered |-> registered,
          driver_registered |-> FALSE]
  ELSE IF fault = "driver_register"
    THEN [ret |-> -ENOMEM, plmem_class |-> "valid", class_registered |-> TRUE,
          driver_registered |-> FALSE]
  ELSE [ret |-> 0, plmem_class |-> "valid", class_registered |-> TRUE,
        driver_registered |-> TRUE]

ModuleInit(fault) ==
  /\ module = "unloaded"
  /\ LET r == plmem_init(fault, class_registered)
     IN /\ module' = IF r.ret = 0 THEN "loaded" ELSE "unloaded"
        /\ plmem_class' = r.plmem_class
        /\ class_registered' = r.class_registered
        /\ driver_registered' = r.driver_registered
        /\ call' = [op |-> "init", returned |-> TRUE, ret |-> r.ret]
  /\ UNCHANGED <<kernel_vars, device_vars, filp>>

(* ------------------------------- probe --------------------------------- *)
(* The driver core calls plmem_probe for an unbound device; on an error    *)
(* return it releases the devm allocation and clears drvdata.              *)
Probe(n, desc, fault, ub) ==
  /\ driver_registered
  /\ bound[n] = "unbound"
  /\ probes < MaxProbes
  /\ \E r \in {plmem_probe([node |-> n, gen |-> data[n].gen + 1], desc, fault,
                            ub, chrdevs, cdev_map, class_devs)} :
     LET self == [node |-> n, gen |-> data[n].gen + 1]
         ok == r.returned /\ r.ret = 0
     IN /\ chrdevs' = r.chrdevs
        /\ cdev_map' = r.cdev_map
        /\ class_devs' = r.class_devs
        /\ data' = IF ~r.alloc THEN data
                   ELSE IF ~r.returned THEN [data EXCEPT ![n] = r.data]
                   ELSE IF ok
                     THEN [data EXCEPT ![n] = [r.data EXCEPT !.node_state = "Published"]]
                   ELSE [data EXCEPT ![n] = Freed(r.data)]
        /\ drvdata' = IF r.alloc /\ (ok \/ ~r.returned)
                        THEN [drvdata EXCEPT ![n] = self.gen]
                      ELSE [drvdata EXCEPT ![n] = 0]
        /\ bound' = IF ~r.returned THEN [bound EXCEPT ![n] = "oops"]
                    ELSE IF ok THEN [bound EXCEPT ![n] = "bound"]
                    ELSE bound
        /\ call' = [op |-> "probe", node |-> n, self |-> self, desc |-> desc,
                    returned |-> r.returned, ret |-> r.ret, step |-> r.step,
                    label |-> r.label, mode |-> r.data.mmap_mode,
                    devt |-> r.data.devt, before |-> Tables]
  /\ probes' = probes + 1
  /\ UNCHANGED <<module_vars, filp>>

(* ------------------------------- remove -------------------------------- *)
(* The driver core calls plmem_remove for a bound device (unbind, device   *)
(* removal), then releases the devm allocation and clears drvdata.         *)
Remove(n) ==
  /\ bound[n] = "bound"
  /\ LET r == plmem_remove(data[n], chrdevs, class_devs)
     IN /\ chrdevs' = r.chrdevs
        /\ class_devs' = r.class_devs
  /\ data' = [data EXCEPT ![n] = Freed([data[n] EXCEPT !.node_state = "Destroyed"])]
  /\ drvdata' = [drvdata EXCEPT ![n] = 0]
  /\ bound' = [bound EXCEPT ![n] = "unbound"]
  /\ call' = [op |-> "remove", node |-> n,
              self |-> [node |-> n, gen |-> data[n].gen],
              returned |-> TRUE, ret |-> 0, devt |-> data[n].devt,
              before |-> Tables,
              prev |-> IF call.op = "probe"
                         THEN [op |-> "probe", self |-> call.self,
                               before |-> call.before]
                       ELSE [op |-> call.op]]
  /\ UNCHANGED <<module_vars, cdev_map, probes, filp>>

(* ----------------------------- module exit ----------------------------- *)
RECURSIVE driver_detach(_, _, _)
(* platform_driver_unregister: plmem_remove for nodes k..MaxNodes that are *)
(* bound, each on the tables the previous one left.                        *)
driver_detach(k, chr, devs) ==
  IF k > MaxNodes THEN [chrdevs |-> chr, class_devs |-> devs]
  ELSE IF bound[k] = "bound"
    THEN LET r == plmem_remove(data[k], chr, devs)
         IN driver_detach(k + 1, r.chrdevs, r.class_devs)
  ELSE driver_detach(k + 1, chr, devs)

(* plmem_exit; the module cannot be unloaded while a file that uses        *)
(* plmem_fops (owner THIS_MODULE) is open.                                 *)
ModuleExit ==
  /\ module = "loaded"
  /\ \A s \in Sessions : ~filp[s].open
  /\ LET r == driver_detach(1, chrdevs, class_devs)
     IN /\ chrdevs' = r.chrdevs
        /\ class_devs' = r.class_devs
  /\ data' = [n \in Nodes |->
                IF bound[n] = "bound"
                  THEN Freed([data[n] EXCEPT !.node_state = "Destroyed"])
                ELSE data[n]]
  /\ drvdata' = [n \in Nodes |-> IF bound[n] = "bound" THEN 0 ELSE drvdata[n]]
  /\ bound' = [n \in Nodes |-> IF bound[n] = "bound" THEN "unbound" ELSE bound[n]]
  /\ driver_registered' = FALSE
  /\ class_registered' = FALSE
  /\ plmem_class' = "destroyed"
  /\ module' = "unloaded"
  /\ call' = [op |-> "exit", returned |-> TRUE, ret |-> 0]
  /\ UNCHANGED <<cdev_map, probes, filp>>

(* ------------------------------- open ---------------------------------- *)
(* chrdev_open looks dev up in the cdev map and calls plmem_open, which    *)
(* stores container_of(inode->i_cdev) in filp->private_data.  A cdev that  *)
(* lies in freed memory may or may not still lead to plmem_fops.           *)
(* Variant: plmem_open takes the instance from a single global pointer to  *)
(* the first instance instead of container_of(inode->i_cdev).              *)
plmem_open_global(cdev) == [ret |-> 0, private_data |-> [node |-> 1, gen |-> 1]]

plmem_open(cdev) == [ret |-> 0, private_data |-> cdev]

Open(s, dev, intact) ==
  /\ module = "loaded"
  /\ ~filp[s].open
  /\ cdev_lookup(cdev_map, dev) # <<>>
  /\ LET cdev == cdev_lookup(cdev_map, dev)[1]
         r == plmem_open(cdev)
     IN /\ intact \/ ~Live(cdev)
        /\ filp' = IF intact
                     THEN [filp EXCEPT ![s] = [ClosedFile EXCEPT
                                                 !.open = TRUE,
                                                 !.private_data = r.private_data]]
                   ELSE filp
        /\ call' = [op |-> "open", sess |-> s, dev |-> dev, cdev |-> cdev,
                    returned |-> TRUE, ret |-> IF intact THEN r.ret ELSE -ENXIO]
  /\ UNCHANGED <<module_vars, kernel_vars, device_vars>>

(* ------------------------------- mmap ---------------------------------- *)
(* What a load of a field of *filp->private_data can return: the field of  *)
(* the live instance, or anything once the allocation has been freed.      *)
StaleWords == {0, 57005}
ReadMode(ptr) == IF Live(ptr) THEN {data[ptr.node].mmap_mode} ELSE Modes
ReadStart(ptr) == IF Live(ptr) THEN {data[ptr.node].mem_start} ELSE StaleWords
ReadSize(ptr) == IF Live(ptr) THEN {data[ptr.node].mem_size} ELSE StaleWords

(* plmem_mmap, lines 34-45: the page protection is set from mmap_mode.     *)
MmapProt(s, vma) ==
  /\ filp[s].open
  /\ filp[s].pc = "idle"
  /\ \E mode \in ReadMode(filp[s].private_data) :
       /\ filp' = [filp EXCEPT ![s].pc = "iomap",
                               ![s].prot0 = vma.vm_page_prot,
                               ![s].vma = [vma EXCEPT !.vm_page_prot =
                                             MmapPageProt(mode, vma.vm_page_prot)]]
       /\ call' = [op |-> "mmap_prot", sess |-> s, live |-> Live(filp[s].private_data),
                   self |-> filp[s].private_data, mode |-> mode,
                   returned |-> FALSE, ret |-> 0]
  /\ UNCHANGED <<module_vars, kernel_vars, device_vars>>

(* plmem_mmap, line 46: vm_iomap_memory on the instance's region.          *)
MmapIomap(s, nomem) ==
  /\ filp[s].open
  /\ filp[s].pc = "iomap"
  /\ \E start \in ReadStart(filp[s].private_data),
        size \in ReadSize(filp[s].private_data) :
       call' = [op |-> "mmap", sess |-> s, live |-> Live(filp[s].private_data),
                self |-> filp[s].private_data,
                prot0 |-> filp[s].prot0, vma |-> filp[s].vma,
                start |-> start, size |-> size, nomem |-> nomem,
                returned |-> TRUE,
                ret |-> vm_iomap_memory(filp[s].vma, start, size, nomem)]
  /\ filp' = [filp EXCEPT ![s].pc = "idle", ![s].vma = NoVma,
                          ![s].prot0 = NoVma.vm_page_prot]
  /\ UNCHANGED <<module_vars, kernel_vars, device_vars>>

(* ------------------------------- ioctl --------------------------------- *)
(* Variant: a request that switches the instance to cached mappings.       *)
Ioctl_sets_mode(s, cmd, arg) ==
  /\ filp[s].open
  /\ call' = [op |-> "ioctl", sess |-> s, cmd |-> cmd, arg |-> arg,
              returned |-> TRUE, ret |-> plmem_ioctl(cmd, arg)]
  /\ data' = IF cmd # 0 /\ Live(filp[s].private_data)
               THEN [data EXCEPT ![filp[s].private_data.node].mmap_mode = "cached"]
             ELSE data
  /\ UNCHANGED <<module_vars, kernel_vars, drvdata, bound, probes, filp>>

Ioctl(s, cmd, arg) ==
  /\ filp[s].open
  /\ call' = [op |-> "ioctl", sess |-> s, cmd |-> cmd, arg |-> arg,
              returned |-> TRUE, ret |-> plmem_ioctl(cmd, arg)]
  /\ UNCHANGED <<module_vars, kernel_vars, device_vars, filp>>

(* ------------------------------ release -------------------------------- *)
(* The last close of the file: plmem_release, then the file is gone.       *)
Release(s) ==
  /\ filp[s].open
  /\ filp[s].pc = "idle"
  /\ filp' = [filp EXCEPT ![s] = ClosedFile]
  /\ call' = [op |-> "release", sess |-> s, returned |-> TRUE,
              ret |-> plmem_release]
  /\ UNCHANGED <<module_vars, kernel_vars, device_vars>>

(* ----------------------------- specification --------------------------- *)
(* The outcomes of the resource dereference that apply to desc.            *)
DerefOutcomes(desc) ==
  IF desc.res = <<>> THEN NullDerefOutcomes
  ELSE {[oops |-> FALSE, start |-> 0, end |-> 0]}

(* The descriptions the lifecycle specification probes with.               *)
LifecycleDescriptions ==
  {desc \in Descriptions :
     /\ desc.res = <<[start |-> 65536, end |-> 65536 + PAGE_SIZE - 1]>>
     /\ \/ ~desc.tester /\ desc.mem_type = <<>> /\ desc.label = <<>>
        \/ desc.tester /\ desc.mem_type = <<"cached">> /\ desc.label = <<"fpga0">>}

FileOps ==
  \/ \E s \in Sessions, i \in 1..Len(cdev_map), intact \in BOOLEAN :
       Open(s, cdev_map[i].dev, intact)
  \/ \E s \in Sessions, vma \in VmaInputs : MmapProt(s, vma)
  \/ \E s \in Sessions, nomem \in BOOLEAN : MmapIomap(s, nomem)
  \/ \E s \in Sessions, io \in IoctlInputs : Ioctl(s, io.cmd, io.arg)
  \/ \E s \in Sessions : Release(s)

(* Lifecycle: several devices, probed, removed and probed again, the       *)
(* module loaded and unloaded.                                             *)
Next ==
  \/ \E fault \in InitFaults : ModuleInit(fault)
  \/ ModuleExit
  \/ \E n \in Nodes, desc \in LifecycleDescriptions, fault \in Faults :
       \E ub \in DerefOutcomes(desc) : Probe(n, desc, fault, ub)
  \/ \E n \in Nodes : Remove(n)

Spec == Init /\ [][Next]_vars

(* Binding: the first probe of the system, over every description, and    *)
(* the file operations on what it published.                               *)
NextBind ==
  \/ \E fault \in InitFaults : ModuleInit(fault)
  \/ ModuleExit
  \/ \E n \in Nodes, desc \in Descriptions, fault \in Faults :
       \E ub \in DerefOutcomes(desc) : probes = 0 /\ Probe(n, desc, fault, ub)
  \/ \E n \in Nodes : Remove(n)
  \/ FileOps

SpecBind == Init /\ [][NextBind]_vars

(* Sharing: several devices probed and removed while sessions open and    *)
(* close the nodes they published.                                         *)
NextShare ==
  \/ \E fault \in InitFaults : ModuleInit(fault)
  \/ ModuleExit
  \/ \E n \in Nodes, desc \in LifecycleDescriptions, fault \in Faults :
       \E ub \in DerefOutcomes(desc) : Probe(n, desc, fault, ub)
  \/ \E n \in Nodes : Remove(n)
  \/ \E s \in Sessions, i \in 1..Len(cdev_map), intact \in BOOLEAN :
       Open(s, cdev_map[i].dev, intact)
  \/ \E s \in Sessions : Release(s)

SpecShare == Init /\ [][NextShare]_vars

(* ============================ properties =============================== *)
(* The region the allocator holds for the one identity of an instance.     *)
IdentityOf(devt) == Region(devt, NUMBER_OF_CDEV, DRIVER_CLASS_NAME)

(* The last call was a plmem_probe that got as far as plmem_create_cdev    *)
(* and came back from it with an error after the identity was allocated.   *)
PublishFailedAfterAlloc ==
  /\ call.op = "probe"
  /\ call.step \in {"cdev_add", "device_create"}

(* C1: a successful publish immediately followed by the destroy of the     *)
(* same instance leaves the set of registered chrdev regions as it was     *)
(* before the publish.                                                     *)
C1_PublishDestroyRoundTrip ==
  (/\ call.op = "remove"
   /\ call.prev.op = "probe"
   /\ call.prev.self = call.self)
  => chrdevs = call.prev.before.chrdevs

(* C2: when plmem_create_cdev fails after alloc_chrdev_region succeeded,   *)
(* the identity is no longer registered once the probe has returned, and   *)
(* the allocator holds what it held before the probe.                      *)
C2_FailedPublishReleasesIdentity ==
  PublishFailedAfterAlloc =>
    /\ call.returned /\ call.ret < 0
    /\ call.devt # 0
    /\ IdentityOf(call.devt) \notin chrdevs
    /\ chrdevs = call.before.chrdevs

(* C2 witness: device_create failed for an instance that had been given an *)
(* identity, while identities of earlier instances are still registered.   *)
C2_Witness ==
  /\ PublishFailedAfterAlloc
  /\ call.step = "device_create"
  /\ call.devt # 0
  /\ \E cd \in chrdevs : cd.name = DRIVER_CLASS_NAME

(* C3: after plmem_create_cdev returns an error, whichever step failed, no *)
(* class device and no cdev of the instance remains and the instance is    *)
(* not Published.                                                          *)
C3_RollbackUndoesEveryStep ==
  (call.op = "probe" /\ call.step \in {"alloc_chrdev", "cdev_add", "device_create"})
  => /\ \A d \in class_devs : d.drvdata # call.self
     /\ \A i \in 1..Len(cdev_map) : cdev_map[i].cdev # call.self
     /\ data[call.node].node_state # "Published"

(* C4: a probe of a node without a memory resource returns an error and    *)
(* leaves no identity allocated and no node published.                     *)
C4_NoResourceFailsCleanly ==
  (call.op = "probe" /\ call.desc.res = <<>> /\ call.step # "kzalloc")
  => /\ call.returned /\ call.ret < 0
     /\ chrdevs = call.before.chrdevs
     /\ class_devs = call.before.class_devs
     /\ data[call.node].node_state # "Published"

(* The last call was a plmem_probe that went past the resource lines and   *)
(* so reached the resolution of the cache mode.                            *)
ProbeResolved ==
  /\ call.op = "probe"
  /\ call.step \notin {"kzalloc", "resource"}

(* The node of the last probe is Published and its instance is allocated.  *)
ProbePublished ==
  /\ call.op = "probe"
  /\ call.returned /\ call.ret = 0
  /\ data[call.node].node_state = "Published"
  /\ data[call.node].mem = "live"

(* C5: with mem-type one of writecombine, cached, noncached the probe      *)
(* resolves mmap_mode to the mode of that name, whatever the tester tag.   *)
C5_MemTypeOverridesDefault ==
  (ProbeResolved /\ call.desc.mem_type \in
                      {<<"writecombine">>, <<"cached">>, <<"noncached">>})
  => /\ call.desc.mem_type = <<"writecombine">> => call.mode = "writecombine"
     /\ call.desc.mem_type = <<"cached">> => call.mode = "cached"
     /\ call.desc.mem_type = <<"noncached">> => call.mode = "noncached"
     /\ ProbePublished => data[call.node].mmap_mode = call.mode

(* C5 witness: tester tag present, mem-type cached, published as cached.   *)
C5_Witness ==
  /\ ProbePublished
  /\ call.desc.tester
  /\ call.desc.mem_type = <<"cached">>
  /\ data[call.node].mmap_mode = "cached"

(* C6: with mem-type absent the probe resolves mmap_mode to noncached for  *)
(* a node with the tester tag and to writecombine for any other node.      *)
C6_DefaultModeFromTag ==
  (ProbeResolved /\ call.desc.mem_type = <<>>)
  => /\ call.desc.tester => call.mode = "noncached"
     /\ ~call.desc.tester => call.mode = "writecombine"
     /\ ProbePublished => data[call.node].mmap_mode = call.mode

(* C6 witness: a tester node without mem-type, published as noncached.     *)
C6_Witness ==
  /\ ProbePublished
  /\ call.desc.tester
  /\ call.desc.mem_type = <<>>
  /\ data[call.node].mmap_mode = "noncached"

(* C7: with any other mem-type string the probe returns -EINVAL, and the   *)
(* node gets no identity, no cdev, no class device and is not Published.   *)
C7_InvalidMemTypeRejected ==
  (/\ ProbeResolved
   /\ call.desc.mem_type # <<>>
   /\ call.desc.mem_type \notin {<<"writecombine">>, <<"cached">>, <<"noncached">>})
  => /\ call.returned /\ call.ret = -EINVAL
     /\ call.devt = 0
     /\ chrdevs = call.before.chrdevs
     /\ cdev_map = call.before.cdev_map
     /\ class_devs = call.before.class_devs
     /\ \A i \in 1..Len(cdev_map) : cdev_map[i].cdev # call.self
     /\ \A d \in class_devs : d.drvdata # call.self
     /\ data[call.node].node_state = "Unpublished"
     /\ bound[call.node] = "unbound"

(* C7 witness: a probe with mem-type "bogus" on a node that has its        *)
(* memory resource has returned.                                           *)
C7_Witness ==
  /\ call.op = "probe"
  /\ call.desc.mem_type = <<"bogus">>
  /\ call.desc.res # <<>>
  /\ call.step = "mem_type"
  /\ call.ret = -EINVAL

(* C8: no two live instances hold the same devt, and what a remove takes   *)
(* out of the allocator is nothing but the identity of the instance it     *)
(* removes.                                                                *)
C8_IdentitiesUniqueAndOwnRelease ==
  /\ \A n1, n2 \in Nodes :
       (/\ n1 # n2
        /\ data[n1].node_state = "Published"
        /\ data[n2].node_state = "Published")
       => data[n1].devt # data[n2].devt
  /\ call.op = "remove"
       => (call.before.chrdevs \ chrdevs) \subseteq {IdentityOf(call.devt)}

(* C9: for a map on a live instance, the protection handed to              *)
(* vm_iomap_memory is the vma's default one for cached, its noncached      *)
(* variant for noncached and its write-combined variant for writecombine,  *)
(* and the range is the instance's (mem_start, mem_size).                  *)
C9_MmapAttributeFromMode ==
  (call.op = "mmap" /\ call.live)
  => LET d == data[call.self.node]
     IN /\ call.start = d.mem_start
        /\ call.size = d.mem_size
        /\ call.vma.vm_page_prot.access = call.prot0.access
        /\ d.mmap_mode = "cached" => call.vma.vm_page_prot = call.prot0
        /\ d.mmap_mode = "noncached"
             => call.vma.vm_page_prot.memtype = "noncached"
        /\ d.mmap_mode = "writecombine"
             => call.vma.vm_page_prot.memtype = "writecombine"

(* C9 witness: a map of a cached instance went through with the default    *)
(* protection.                                                             *)
C9_Witness ==
  /\ call.op = "mmap"
  /\ call.live
  /\ call.ret = 0
  /\ data[call.self.node].mmap_mode = "cached"
  /\ call.vma.vm_page_prot = call.prot0

(* C10: every plmem_ioctl returns -ENOTTY and changes nothing but the      *)
(* record of the call.                                                     *)
C10_IoctlNotSupported ==
  [][call'.op = "ioctl"
       => /\ call'.ret = -ENOTTY
          /\ UNCHANGED <<module_vars, kernel_vars, device_vars, filp>>]_vars

(* C10 witness: an ioctl with request 0 on a session whose instance is      *)
(* Published has returned -ENOTTY.                                         *)
C10_Witness ==
  /\ call.op = "ioctl"
  /\ call.cmd = 0
  /\ call.ret = -ENOTTY
  /\ filp[call.sess].open
  /\ Live(filp[call.sess].private_data)
  /\ data[filp[call.sess].private_data.node].node_state = "Published"

(* ------------------------------ lifecycle ------------------------------ *)
(* An instance is one devm allocation: a node together with a generation.  *)
StateRank(st) ==
  IF st = "Unpublished" THEN 0 ELSE IF st = "Published" THEN 1 ELSE 2

(* The class device created for the instance of node n, if there is one.   *)
NodeOf(n, d, devs) ==
  {cd \in devs : cd.drvdata = [node |-> n, gen |-> d.gen]}

(* C11: over module init, probe, remove and module exit the node_state of  *)
(* an instance only moves forward through Unpublished, Published,          *)
(* Destroyed; a node gets a new instance only when its previous one is not *)
(* Published, so no instance is published twice; and the class device of   *)
(* an instance exists exactly while the instance is Published.             *)
C11_NodeStateMonotonic ==
  [][\A n \in Nodes :
       /\ data'[n].gen = data[n].gen
            => StateRank(data'[n].node_state) >= StateRank(data[n].node_state)
       /\ data'[n].gen # data[n].gen
            => /\ data'[n].gen = data[n].gen + 1
               /\ data[n].node_state # "Published"
               /\ data'[n].node_state # "Destroyed"
       /\ data'[n].node_state = "Published"
            <=> NodeOf(n, data'[n], class_devs') # {}]_vars

(* C11 witness: a second or later instance of a node is Published while    *)
(* the instance of another node is Destroyed.                              *)
C11_Witness ==
  /\ call.op = "probe"
  /\ call.self.gen >= 2
  /\ data[call.node].node_state = "Published"
  /\ \E cd \in class_devs : cd.drvdata = call.self
  /\ \E m \in Nodes \ {call.node} : data[m].node_state = "Destroyed"

(* C12: while some instance is Published the class exists, and the driver  *)
(* is registered only while the class exists; after plmem_exit no driver,  *)
(* no Published instance and no class remain.                              *)
C12_ClassOutlivesInstances ==
  /\ (\E n \in Nodes : data[n].node_state = "Published")
       => plmem_class = "valid" /\ class_registered /\ driver_registered
  /\ driver_registered => plmem_class = "valid" /\ class_registered
  /\ call.op = "exit"
       => /\ ~driver_registered /\ ~class_registered
          /\ plmem_class = "destroyed"
          /\ \A n \in Nodes : data[n].node_state # "Published"
          /\ \A n \in Nodes : bound[n] # "bound"

(* C12 witness: plmem_exit has run with instances that it tore down.       *)
C12_Witness ==
  /\ call.op = "exit"
  /\ \E n \in Nodes : data[n].node_state = "Destroyed"
  /\ plmem_class = "destroyed"

(* -------------------------------- label -------------------------------- *)
(* The label the description asks for: the property, or the default.       *)
ExpectedLabel(desc) == IF desc.label = <<>> THEN "plmem" ELSE desc.label[1]

(* C13: a probe that gets as far as publishing passes the label property,  *)
(* or "plmem" when the property is absent, to plmem_create_cdev; when the  *)
(* probe succeeds the class device of the instance carries exactly that    *)
(* name; and with the property absent the probe never returns the -EINVAL  *)
(* of the failed property read: it fails only in a step of the publish.    *)
C13_LabelOrDefault ==
  (ProbeResolved /\ call.returned /\ call.step # "mem_type")
    => /\ call.label = ExpectedLabel(call.desc)
       /\ call.ret = 0
            => \E cd \in class_devs :
                 /\ cd.drvdata = call.self
                 /\ cd.devt = call.devt
                 /\ cd.name = ExpectedLabel(call.desc)
       /\ (call.desc.label = <<>> /\ call.ret # 0)
            => /\ call.step \in {"alloc_chrdev", "cdev_add", "device_create"}
               /\ call.ret # -EINVAL
       /\ (call.ret # 0 /\ call.step = "device_create" /\ call.ret = -EEXIST)
            => \E cd \in call.before.class_devs :
                 cd.name = ExpectedLabel(call.desc)

(* C13 witness: a node without label has been published as "plmem" next to *)
(* a node published as "fpga0".                                           *)
C13_Witness ==
  /\ ProbePublished
  /\ call.desc.label = <<>>
  /\ \E cd \in class_devs : cd.drvdata = call.self /\ cd.name = "plmem"
  /\ \E cd \in class_devs : cd.drvdata # call.self /\ cd.name = "fpga0"

(* ------------------------------- sessions ------------------------------ *)
(* The Published instances that own device number dev.                     *)
OwnersOf(dev) ==
  {n \in Nodes : data[n].node_state = "Published" /\ data[n].devt = dev}

(* C14: an open of the device number of a Published instance succeeds      *)
(* whoever else holds it open, the session's private_data is that instance *)
(* and no other, and no other session is touched; plmem_release returns 0  *)
(* and changes nothing but the closing session.                            *)
C14_OpenBindsOwnInstance ==
  [][/\ (call'.op = "open" /\ ~filp[call'.sess].open)
          => /\ \A n \in OwnersOf(call'.dev) :
                  /\ call'.ret = 0
                  /\ filp'[call'.sess].open
                  /\ filp'[call'.sess].private_data =
                       [node |-> n, gen |-> data[n].gen]
             /\ \A s \in Sessions \ {call'.sess} : filp'[s] = filp[s]
             /\ UNCHANGED <<module_vars, kernel_vars, device_vars>>
     /\ (call'.op = "release" /\ filp[call'.sess].open)
          => /\ call'.ret = 0
             /\ \A s \in Sessions \ {call'.sess} : filp'[s] = filp[s]
             /\ UNCHANGED <<module_vars, kernel_vars, device_vars>>]_vars

(* C14 witness: with two Published instances, a second session has opened  *)
(* the instance of node 2 that the other session already holds open.       *)
C14_Witness ==
  /\ call.op = "open"
  /\ call.ret = 0
  /\ \A n \in {1, 2} : data[n].node_state = "Published"
  /\ \A s \in Sessions :
       /\ filp[s].open
       /\ filp[s].private_data = [node |-> 2, gen |-> data[2].gen]
  /\ data[2].devt = call.dev

(* The sessions that are between the two steps of plmem_mmap on the        *)
(* allocated instance ptr.                                                 *)
Mapping(ptr, f) ==
  {s \in Sessions : f[s].open /\ f[s].pc = "iomap" /\ f[s].private_data = ptr}

(* C15: a step of plmem_mmap on an allocated instance touches neither the  *)
(* instance nor any other session; all sessions that are inside plmem_mmap *)
(* on the same instance at once hold the same memory type, each with its   *)
(* own access bits; and the call completes with the instance's mem_start   *)
(* and mem_size and with the result vm_iomap_memory gives for its own vma. *)
C15_ConcurrentMapsAgree ==
  [][(/\ call'.op \in {"mmap_prot", "mmap"}
      /\ call'.live
      /\ filp[call'.sess].pc = (IF call'.op = "mmap" THEN "iomap" ELSE "idle"))
       => LET d == data[call'.self.node]
          IN /\ UNCHANGED <<module_vars, kernel_vars, device_vars>>
             /\ \A s \in Sessions \ {call'.sess} : filp'[s] = filp[s]
             /\ \A s, t \in Mapping(call'.self, filp') :
                  /\ filp'[s].vma.vm_page_prot.memtype =
                       filp'[t].vma.vm_page_prot.memtype
                  /\ filp'[s].vma.vm_page_prot.access = filp'[s].prot0.access
             /\ call'.op = "mmap"
                  => /\ call'.start = d.mem_start
                     /\ call'.size = d.mem_size
                     /\ call'.ret = vm_iomap_memory(filp[call'.sess].vma,
                                                    d.mem_start, d.mem_size,
                                                    call'.nomem)
                     /\ call'.ret = -ENOMEM => call'.nomem]_vars

(* C15 witness: a map call has failed for want of memory while the other   *)
(* session is inside plmem_mmap on the same noncached instance with other  *)
(* access bits.                                                            *)
C15_Witness ==
  /\ call.op = "mmap"
  /\ call.live
  /\ call.ret = -ENOMEM
  /\ data[call.self.node].mmap_mode = "noncached"
  /\ \E t \in Mapping(call.self, filp) :
       /\ t # call.sess
       /\ filp[t].prot0.access # call.prot0.access
       /\ filp[t].vma.vm_page_prot.memtype = "noncached"
       /\ call.vma.vm_page_prot.memtype = "noncached"

(* The operations of plmem_fops.                                           *)
FileOpNames == {"open", "mmap_prot", "mmap", "ioctl", "release"}

(* C16: no open, map, ioctl or release changes any instance (mem_start,    *)
(* mem_size, mmap_mode, devt included) or any kernel table; an allocated   *)
(* instance keeps these four fields over every step that leaves it         *)
(* allocated; and a failed map hands its negative result to its caller     *)
(* and leaves every other session as it was.                               *)
C16_RegionFieldsFrozen ==
  [][/\ call'.op \in FileOpNames
          => UNCHANGED <<module_vars, kernel_vars, device_vars>>
     /\ \A n \in Nodes :
          (/\ data'[n].gen = data[n].gen
           /\ data[n].mem = "live" /\ data'[n].mem = "live"
           /\ data[n].node_state = "Published")
            => /\ data'[n].mem_start = data[n].mem_start
               /\ data'[n].mem_size = data[n].mem_size
               /\ data'[n].mmap_mode = data[n].mmap_mode
               /\ data'[n].devt = data[n].devt
     /\ (call'.op = "mmap" /\ filp[call'.sess].pc = "iomap"
          /\ call'.ret # 0)
          => /\ call'.ret \in {-EINVAL, -ENOMEM}
             /\ call'.ret = vm_iomap_memory(call'.vma, call'.start,
                                            call'.size, call'.nomem)
             /\ \A s \in Sessions \ {call'.sess} : filp'[s] = filp[s]]_vars

(* C16 witness: a map call on a Published instance has failed the range    *)
(* check, and the instance still has the region the probe resolved.        *)
C16_Witness ==
  /\ call.op = "mmap"
  /\ call.live
  /\ call.ret = -EINVAL
  /\ data[call.self.node].node_state = "Published"
  /\ data[call.self.node].mem_size > 0
  /\ data[call.self.node].mem_start = call.start

(* ------------------------------- teardown ------------------------------ *)
(* C17: a session that plmem_remove found open on its instance (it was     *)
(* opened while the instance was Published) does not execute a step of     *)
(* plmem_mmap after the remove: a map step finds its instance allocated    *)
(* and Published.                                                          *)
C17_NoMapAfterDestroy ==
  [][(/\ call.op = "remove"
      /\ call'.op \in {"mmap_prot", "mmap"}
      /\ filp[call'.sess].open
      /\ filp[call'.sess].private_data = call.self)
       => /\ call'.live
          /\ data'[call'.self.node].node_state = "Published"]_vars

(* C18: after plmem_remove has returned the cdev map holds no cdev of the  *)
(* removed instance, and no open is routed to an instance that has been    *)
(* Destroyed.                                                              *)
C18_NoHandlerAfterRemove ==
  /\ call.op = "remove"
       => \A i \in 1..Len(cdev_map) : cdev_map[i].cdev # call.self
  /\ (/\ call.op = "open"
      /\ call.ret = 0
      /\ data[call.cdev.node].gen = call.cdev.gen)
       => data[call.cdev.node].node_state # "Destroyed"

(* ---------------------------- error returns ---------------------------- *)
PublishSteps == {"alloc_chrdev", "cdev_add", "device_create"}

(* The instance of the last probe has its identity, its cdev and its class *)
(* device.                                                                 *)
FullyPublished ==
  /\ IdentityOf(call.devt) \in chrdevs
  /\ \E i \in 1..Len(cdev_map) :
       cdev_map[i].cdev = call.self /\ cdev_map[i].dev = call.devt
  /\ \E cd \in class_devs : cd.drvdata = call.self /\ cd.devt = call.devt

(* C19: a probe that returns gives 0 exactly when the instance has its     *)
(* identity, its cdev and its class device, and is then Published and      *)
(* bound; a probe that ends in alloc_chrdev_region, cdev_add or            *)
(* device_create returns that call's negative error, publishes nothing,    *)
(* and shows no second attempt: identities and class devices are as before *)
(* the probe and at most the one cdev was added.                           *)
C19_PublishErrorsReturned ==
  (call.op = "probe" /\ call.returned)
    => /\ call.ret = 0 <=> FullyPublished
       /\ call.ret = 0 <=> call.step = "done"
       /\ call.ret = 0
            => /\ data[call.node].node_state = "Published"
               /\ bound[call.node] = "bound"
               /\ Len(cdev_map) = Len(call.before.cdev_map) + 1
               /\ Cardinality(class_devs) =
                    Cardinality(call.before.class_devs) + 1
       /\ call.step \in PublishSteps
            => /\ call.ret \in {-ENOMEM, -EBUSY, -EEXIST}
               /\ call.ret = -EEXIST => call.step = "device_create"
               /\ data[call.node].node_state = "Unpublished"
               /\ bound[call.node] = "unbound"
               /\ chrdevs = call.before.chrdevs
               /\ class_devs = call.before.class_devs
               /\ Len(cdev_map) <= Len(call.before.cdev_map) + 1
               /\ call.step # "device_create" => cdev_map = call.before.cdev_map

(* C19 witness: device_create has refused a second node of the same name   *)
(* and the probe has returned -EEXIST.                                     *)
C19_Witness ==
  /\ call.op = "probe"
  /\ call.returned
  /\ call.step = "device_create"
  /\ call.ret = -EEXIST
  /\ \E n \in Nodes \ {call.node} : data[n].node_state = "Published"
  /\ ~FullyPublished

(* C20: when plmem_init has returned an error, no class is left created.   *)
C20_NoClassAfterFailedInit ==
  (call.op = "init" /\ call.ret # 0)
    => /\ ~class_registered
       /\ ~driver_registered
       /\ module = "unloaded"

====
